---- MODULE Spec2Model ----
(***************************************************************************)
(* Inverse Game-of-Life predecessor search (zeramorphic/undeath).          *)
(*                                                                         *)
(* Grid      src/src/grid.rs      toroidal SIZE x SIZE array of cells      *)
(* Guess     src/src/guess.rs     partial assignment + unit propagation    *)
(* Searcher  src/src/searcher.rs  backtracking driver with explicit stacks *)
(*                                                                         *)
(* A Grid is a function from the row-major index x + y * SIZE to an        *)
(* integer, as in the source.  The source fixes SIZE = 12; the model runs  *)
(* the same code on a smaller torus so that the search can be enumerated.  *)
(***************************************************************************)
EXTENDS Integers, Sequences, FiniteSets, TLC

\* Side length of the torus (grid.rs:7 has 12; scaled down for enumeration).
SIZE == 4

\* Largest budget handed to one search call.
MaxBudget == 2

\* guess_alive / guess_dead are called on the cells of a CallWidth x CallHeight window.
CallWidth == 3

CallHeight == 2

NCells == SIZE * SIZE
Idx == 0 .. (NCells - 1)
Coord == 0 .. (SIZE - 1)

\* Rust's `%` on i32: the remainder takes the sign of the dividend.
Rem(a, b) == IF a >= 0 THEN a % b ELSE 0 - ((0 - a) % b)

---------------------------------------------------------------------------
(* Grid *)

fill(cell) == [i \in Idx |-> cell]

DefaultGrid == fill(0)

get(grid, x, y) == grid[x + y * SIZE]

set(grid, x, y, cell) == [grid EXCEPT ![x + y * SIZE] = cell]

set_add(grid, x, y, cell) == [grid EXCEPT ![x + y * SIZE] = @ + cell]

get_wrapped(grid, x, y) == get(grid, Rem(x + SIZE, SIZE), Rem(y + SIZE, SIZE))

GridAddAssign(lhs, rhs) == [i \in Idx |-> lhs[i] + rhs[i]]

GridSubAssign(lhs, rhs) == [i \in Idx |-> lhs[i] - rhs[i]]

neighbour_positions(x, y) ==
    << << Rem(x + (-1) + SIZE, SIZE), Rem(y + (-1) + SIZE, SIZE) >>,
       << Rem(x + (-1) + SIZE, SIZE), Rem(y + 0 + SIZE, SIZE) >>,
       << Rem(x + (-1) + SIZE, SIZE), Rem(y + 1 + SIZE, SIZE) >>,
       << Rem(x + 0 + SIZE, SIZE), Rem(y + (-1) + SIZE, SIZE) >>,
       << Rem(x + 0 + SIZE, SIZE), Rem(y + 1 + SIZE, SIZE) >>,
       << Rem(x + 1 + SIZE, SIZE), Rem(y + (-1) + SIZE, SIZE) >>,
       << Rem(x + 1 + SIZE, SIZE), Rem(y + 0 + SIZE, SIZE) >>,
       << Rem(x + 1 + SIZE, SIZE), Rem(y + 1 + SIZE, SIZE) >> >>

\* (0..SIZE).flat_map(|x| (0..SIZE).map(move |y| (x, y))): x outer, y inner.
XMajorCells == [k \in 1 .. NCells |-> << (k - 1) \div SIZE, (k - 1) % SIZE >>]

alive_cells(grid) == SelectSeq(XMajorCells, LAMBDA c : get(grid, c[1], c[2]) > 0)

\* hcount reading 0 beyond the left and right edges instead of wrapping.
hcount_clamped(grid) ==
    [i \in Idx |->
        LET x == i % SIZE
            y == i \div SIZE
        IN  (IF x = 0 THEN 0 ELSE get(grid, x - 1, y)) + get(grid, x, y)
              + (IF x = SIZE - 1 THEN 0 ELSE get(grid, x + 1, y))]

hcount(grid) ==
    [i \in Idx |->
        LET x == i % SIZE
            y == i \div SIZE
        IN  get_wrapped(grid, x - 1, y) + get_wrapped(grid, x, y) + get_wrapped(grid, x + 1, y)]

vcount(grid) ==
    [i \in Idx |->
        LET x == i % SIZE
            y == i \div SIZE
        IN  get_wrapped(grid, x, y - 1) + get_wrapped(grid, x, y) + get_wrapped(grid, x, y + 1)]

neighbours(grid) == GridSubAssign(vcount(hcount(grid)), grid)

\* step keeping a dead cell with two live neighbours alive as well.
step_any_two(grid) ==
    LET nb == neighbours(grid)
    IN  [i \in Idx |-> IF nb[i] = 3 \/ nb[i] = 2 THEN 1 ELSE 0]

step(grid) ==
    LET nb == neighbours(grid)
    IN  [i \in Idx |->
            IF nb[i] = 3 THEN 1
            ELSE IF nb[i] = 2 THEN (IF grid[i] > 0 THEN 1 ELSE 0)
            ELSE 0]

---------------------------------------------------------------------------
(* Guess *)

DefaultGuess ==
    [alive |-> DefaultGrid,
     dead |-> DefaultGrid,
     min_neighbours |-> DefaultGrid,
     max_neighbours |-> fill(8),
     found_contradiction |-> FALSE,
     try_alive |-> DefaultGrid,
     try_dead |-> DefaultGrid]

guessed_alive(g, x, y) == get(g.alive, x, y) > 0

guessed_dead(g, x, y) == get(g.dead, x, y) > 0

\* The running state of one guess_alive / guess_dead call: the Guess being
\* mutated, the work queue (a Vec used as a stack), whether the Result so far
\* is Ok, and how many cells propagate_constraints has popped.
StartCall(g) == [guess |-> g, queue |-> << >>, ok |-> TRUE, pops |-> 0]

\* fail returning Err(()) without recording the contradiction.
fail_keep(st) == [st EXCEPT !.ok = FALSE]

fail(st) == [st EXCEPT !.guess.found_contradiction = TRUE, !.ok = FALSE]

RECURSIVE set_add_each_but_last(_, _, _, _)
\* set_add_each stopping one neighbour short.
set_add_each_but_last(grid, np, k, cell) ==
    IF k >= Len(np) THEN grid
    ELSE set_add_each_but_last(set_add(grid, np[k][1], np[k][2], cell), np, k + 1, cell)

RECURSIVE set_add_each(_, _, _, _)
\* The loop `for (x2, y2) in neighbour_positions(x, y) { grid.set_add(x2, y2, cell) }`.
set_add_each(grid, np, k, cell) ==
    IF k > Len(np) THEN grid
    ELSE set_add_each(set_add(grid, np[k][1], np[k][2], cell), np, k + 1, cell)

\* guess_alive_with_queue without its test of `dead`.
guess_alive_with_queue_unchecked(st, x, y) ==
    IF get(st.guess.alive, x, y) > 0 THEN st
    ELSE LET np == neighbour_positions(x, y)
         IN  [st EXCEPT !.guess.alive = set(@, x, y, 1),
                        !.guess.min_neighbours = set_add_each(@, np, 1, 1),
                        !.queue = @ \o np]

\* guess_alive_with_queue without its early return on a cell already alive.
guess_alive_with_queue_again(st, x, y) ==
    IF get(st.guess.dead, x, y) > 0 THEN fail(st)
    ELSE LET np == neighbour_positions(x, y)
         IN  [st EXCEPT !.guess.alive = set(@, x, y, 1),
                        !.guess.min_neighbours = set_add_each(@, np, 1, 1),
                        !.queue = @ \o np]

guess_alive_with_queue(st, x, y) ==
    IF get(st.guess.dead, x, y) > 0 THEN fail(st)
    ELSE IF get(st.guess.alive, x, y) > 0 THEN st
    ELSE LET np == neighbour_positions(x, y)
         IN  [st EXCEPT !.guess.alive = set(@, x, y, 1),
                        !.guess.min_neighbours = set_add_each(@, np, 1, 1),
                        !.queue = @ \o np]

\* guess_dead_with_queue adding Cell::one() where the source adds Cell::neg_one().
guess_dead_with_queue_plus(st, x, y) ==
    IF get(st.guess.alive, x, y) > 0 THEN fail(st)
    ELSE IF get(st.guess.dead, x, y) > 0 THEN st
    ELSE LET np == neighbour_positions(x, y)
         IN  [st EXCEPT !.guess.dead = set(@, x, y, 1),
                        !.guess.max_neighbours = set_add_each(@, np, 1, 1),
                        !.queue = @ \o np]

guess_dead_with_queue(st, x, y) ==
    IF get(st.guess.alive, x, y) > 0 THEN fail(st)
    ELSE IF get(st.guess.dead, x, y) > 0 THEN st
    ELSE LET np == neighbour_positions(x, y)
         IN  [st EXCEPT !.guess.dead = set(@, x, y, 1),
                        !.guess.max_neighbours = set_add_each(@, np, 1, -1),
                        !.queue = @ \o np]

Undecided(g, p) == get(g.dead, p[1], p[2]) = 0 /\ get(g.alive, p[1], p[2]) = 0

RECURSIVE neighbours_alive_from(_, _, _)
neighbours_alive_from(st, np, k) ==
    IF k > Len(np) THEN st
    ELSE IF Undecided(st.guess, np[k])
         THEN LET st2 == guess_alive_with_queue(st, np[k][1], np[k][2])
              IN  IF st2.ok THEN neighbours_alive_from(st2, np, k + 1) ELSE st2
         ELSE neighbours_alive_from(st, np, k + 1)

guess_neighbours_alive_with_queue(st, x, y) ==
    neighbours_alive_from(st, neighbour_positions(x, y), 1)

RECURSIVE neighbours_dead_from(_, _, _)
neighbours_dead_from(st, np, k) ==
    IF k > Len(np) THEN st
    ELSE IF Undecided(st.guess, np[k])
         THEN LET st2 == guess_dead_with_queue(st, np[k][1], np[k][2])
              IN  IF st2.ok THEN neighbours_dead_from(st2, np, k + 1) ELSE st2
         ELSE neighbours_dead_from(st, np, k + 1)

guess_neighbours_dead_with_queue(st, x, y) ==
    neighbours_dead_from(st, neighbour_positions(x, y), 1)

RECURSIVE first_undecided_alive(_, _, _)
\* guess.rs:283-293: force the first undecided neighbour alive, then break.
first_undecided_alive(st, np, k) ==
    IF k > Len(np) THEN st
    ELSE IF Undecided(st.guess, np[k])
         THEN guess_alive_with_queue(st, np[k][1], np[k][2])
         ELSE first_undecided_alive(st, np, k + 1)

RECURSIVE mark_undecided(_, _, _, _)
\* guess.rs:312-322 / 325-333: set the advisory grid at every undecided neighbour.
mark_undecided(grid, g, np, k) ==
    IF k > Len(np) THEN grid
    ELSE IF Undecided(g, np[k])
         THEN mark_undecided(set(grid, np[k][1], np[k][2], 1), g, np, k + 1)
         ELSE mark_undecided(grid, g, np, k + 1)

\* exact_count accepting a dead next-frame cell with exactly three neighbours.
exact_count_lenient(st, nx, x, y, min) ==
    LET next_state == get(nx, x, y)
    IN  IF min = 3 THEN st
        ELSE IF min = 2
             THEN (IF next_state > 0
                   THEN guess_alive_with_queue(st, x, y)
                   ELSE guess_dead_with_queue(st, x, y))
        ELSE (IF next_state > 0 THEN fail(st) ELSE st)

\* guess.rs:221-249: all neighbours decided.
exact_count(st, nx, x, y, min) ==
    LET next_state == get(nx, x, y)
    IN  IF min = 3 THEN (IF next_state = 0 THEN fail(st) ELSE st)
        ELSE IF min = 2
             THEN (IF next_state > 0
                   THEN guess_alive_with_queue(st, x, y)
                   ELSE guess_dead_with_queue(st, x, y))
        ELSE (IF next_state > 0 THEN fail(st) ELSE st)

\* guess.rs:251-295: min/max calculations.
min_max_calculations(st, nx, x, y, min, max) ==
    LET next_state == get(nx, x, y)
    IN  IF max < 2 \/ min > 3
        THEN (IF next_state > 0 THEN fail(st) ELSE st)
        ELSE IF max = 2
             THEN (IF next_state > 0
                   THEN LET st2 == guess_alive_with_queue(st, x, y)
                        IN  IF st2.ok
                            THEN guess_neighbours_alive_with_queue(st2, x, y)
                            ELSE st2
                   ELSE IF min = 2 THEN guess_dead_with_queue(st, x, y)
                   ELSE st)
        ELSE IF min = 3
             THEN (IF next_state > 0
                   THEN guess_neighbours_dead_with_queue(st, x, y)
                   ELSE IF max = 4
                        THEN first_undecided_alive(st, neighbour_positions(x, y), 1)
                        ELSE st)
        ELSE st

\* previous_state_calculations forcing the undecided neighbours alive (dead)
\* where the source only marks them in try_alive (try_dead).
previous_state_calculations_forcing(st, nx, x, y, min, max) ==
    LET next_state == get(nx, x, y)
        previously_dead == get(st.guess.dead, x, y)
        previously_alive == get(st.guess.alive, x, y)
    IN  IF next_state > 0 /\ previously_dead > 0
        THEN (IF min = 3 THEN guess_neighbours_dead_with_queue(st, x, y)
              ELSE IF max = 3 THEN guess_neighbours_alive_with_queue(st, x, y)
              ELSE IF min = 2 THEN guess_neighbours_alive_with_queue(st, x, y)
              ELSE IF max = 4 THEN guess_neighbours_dead_with_queue(st, x, y)
              ELSE st)
        ELSE IF next_state > 0 /\ previously_alive > 0
        THEN (IF min = 3 THEN guess_neighbours_dead_with_queue(st, x, y)
              ELSE IF max = 2 THEN guess_neighbours_alive_with_queue(st, x, y)
              ELSE st)
        ELSE st

\* guess.rs:297-356: previous state calculations.
previous_state_calculations(st, nx, x, y, min, max) ==
    LET next_state == get(nx, x, y)
        previously_dead == get(st.guess.dead, x, y)
        previously_alive == get(st.guess.alive, x, y)
        np == neighbour_positions(x, y)
    IN  IF next_state > 0 /\ previously_dead > 0
        THEN (IF min = 3 THEN guess_neighbours_dead_with_queue(st, x, y)
              ELSE IF max = 3 THEN guess_neighbours_alive_with_queue(st, x, y)
              ELSE IF min = 2
                   THEN [st EXCEPT !.guess.try_alive = mark_undecided(@, st.guess, np, 1)]
              ELSE IF max = 4
                   THEN [st EXCEPT !.guess.try_dead = mark_undecided(@, st.guess, np, 1)]
              ELSE st)
        ELSE IF next_state > 0 /\ previously_alive > 0
        THEN (IF min = 3 THEN guess_neighbours_dead_with_queue(st, x, y)
              ELSE IF max = 2 THEN guess_neighbours_alive_with_queue(st, x, y)
              ELSE st)
        ELSE st

\* One iteration of `while let Some((x, y)) = queue.pop()`.
propagate_one(st, nx) ==
    LET q == st.queue
        x == q[Len(q)][1]
        y == q[Len(q)][2]
        st0 == [st EXCEPT !.queue = SubSeq(q, 1, Len(q) - 1), !.pops = @ + 1]
        min == get(st.guess.min_neighbours, x, y)
        max == get(st.guess.max_neighbours, x, y)
    IN  IF min = max THEN exact_count(st0, nx, x, y, min)
        ELSE LET st1 == min_max_calculations(st0, nx, x, y, min, max)
             IN  IF st1.ok THEN previous_state_calculations(st1, nx, x, y, min, max)
                 ELSE st1

\* propagate_constraints returning at once, the queue left as it is.
propagate_constraints_skip(st, nx) == st

RECURSIVE propagate_constraints(_, _)
propagate_constraints(st, nx) ==
    IF ~st.ok \/ st.queue = << >> THEN st
    ELSE propagate_constraints(propagate_one(st, nx), nx)

\* guess_alive / guess_dead, returning the call's final running state.
guess_alive_call(g, nx, x, y) ==
    LET st == guess_alive_with_queue(StartCall(g), x, y)
    IN  IF st.ok THEN propagate_constraints(st, nx) ELSE st

guess_dead_call(g, nx, x, y) ==
    LET st == guess_dead_with_queue(StartCall(g), x, y)
    IN  IF st.ok THEN propagate_constraints(st, nx) ELSE st

guess_alive(g, nx, x, y) == guess_alive_call(g, nx, x, y).guess

guess_dead(g, nx, x, y) == guess_dead_call(g, nx, x, y).guess

---------------------------------------------------------------------------
(* Searcher *)

MakeGuess == [kind |-> "MakeGuess"]

FirstGuess(x, y, alive) == [kind |-> "FirstGuess", x |-> x, y |-> y, alive |-> alive]

SecondGuess(x, y, alive) == [kind |-> "SecondGuess", x |-> x, y |-> y, alive |-> alive]

Found(grid, iterations) == [kind |-> "Found", grid |-> grid, iterations |-> iterations]

Working(iterations) == [kind |-> "Working", iterations |-> iterations]

Unsatisfiable == [kind |-> "Unsatisfiable"]

\* The process aborted in panic!, todo!, unimplemented! or unwrap().
Panicked(why) == [kind |-> "Panic", why |-> why]

Abs(v) == IF v < 0 THEN 0 - v ELSE v

MinOf(S) == CHOOSE m \in S : \A n \in S : m <= n

\* Vec::last, Vec::pop (pop on an empty Vec is a no-op returning None).
Last(seq) == seq[Len(seq)]

Pop(seq) == IF seq = << >> THEN seq ELSE SubSeq(seq, 1, Len(seq) - 1)

Contains(seq, e) == \E k \in 1 .. Len(seq) : seq[k] = e

\* searcher.rs:37-43: the sort key of a cell.
sort_key(alive, c) ==
    IF alive = << >> THEN -1000
    ELSE MinOf({ Abs(Rem(alive[k][1] - c[1] + SIZE, SIZE))
                   + Abs(Rem(alive[k][2] - c[2] + SIZE, SIZE)) : k \in 1 .. Len(alive) })

RECURSIVE insert_by_key(_, _, _, _)
\* Stable insertion: e goes after every element whose key is <= its own.
insert_by_key(sorted, e, alive, k) ==
    IF k > Len(sorted) THEN Append(sorted, e)
    ELSE IF sort_key(alive, sorted[k]) > sort_key(alive, e)
         THEN SubSeq(sorted, 1, k - 1) \o << e >> \o SubSeq(sorted, k, Len(sorted))
         ELSE insert_by_key(sorted, e, alive, k + 1)

RECURSIVE sort_by_key(_, _, _)
\* slice::sort_by_key is a stable ascending sort.
sort_by_key(cells, alive, k) ==
    IF k = 0 THEN << >>
    ELSE insert_by_key(sort_by_key(cells, alive, k - 1), cells[k], alive, 1)

\* Searcher::new
new(nx) ==
    LET alive == alive_cells(nx)
    IN  [next |-> nx,
         guess_stack |-> << DefaultGuess >>,
         action_stack |-> << MakeGuess >>,
         all_cells |-> sort_by_key(XMajorCells, alive, NCells),
         alive_cells |-> alive]

\* candidates without the advisory grids: the heuristic order alone.
candidates_heuristic_only(s, guess) ==
    SelectSeq(s.all_cells,
              LAMBDA c : ~guessed_alive(guess, c[1], c[2]) /\ ~guessed_dead(guess, c[1], c[2]))

\* searcher.rs:71-85: the cells MakeGuess may branch on, in the order tried.
candidates(s, guess) ==
    LET try_dead == GridSubAssign(GridSubAssign(guess.try_dead, guess.alive), guess.dead)
        try_alive == GridSubAssign(GridSubAssign(guess.try_alive, guess.alive), guess.dead)
    IN  alive_cells(try_dead) \o alive_cells(try_alive)
          \o SelectSeq(s.all_cells,
                       LAMBDA c : ~guessed_alive(guess, c[1], c[2]) /\ ~guessed_dead(guess, c[1], c[2]))

RECURSIVE rewind_drop_first(_)
\* rewind that drops the FirstGuess it reaches and goes on, so that the
\* opposite polarity of a cell is never tried after its first polarity succeeded.
rewind_drop_first(s) ==
    IF s.action_stack = << >> THEN [searcher |-> s, outcome |-> "continue"]
    ELSE LET action == Last(s.action_stack)
             s1 == [s EXCEPT !.action_stack = Pop(@)]
         IN  IF action.kind = "MakeGuess"
             THEN [searcher |-> s1, outcome |-> "todo"]
             ELSE rewind_drop_first([s1 EXCEPT !.guess_stack = Pop(@)])

RECURSIVE rewind_keep_guesses(_)
\* rewind that pops no Guess for the SecondGuess entries it passes.
rewind_keep_guesses(s) ==
    IF s.action_stack = << >> THEN [searcher |-> s, outcome |-> "continue"]
    ELSE LET action == Last(s.action_stack)
             s1 == [s EXCEPT !.action_stack = Pop(@)]
         IN  IF action.kind = "MakeGuess"
             THEN [searcher |-> s1, outcome |-> "todo"]
             ELSE IF action.kind = "FirstGuess"
             THEN [searcher |-> [s1 EXCEPT !.action_stack =
                                     Append(@, SecondGuess(action.x, action.y, action.alive))],
                   outcome |-> "continue"]
             ELSE rewind_keep_guesses(s1)

RECURSIVE rewind(_)
\* searcher.rs:113-127 and 159-173: pop actions until a FirstGuess is found
\* and turned into a SecondGuess, popping one Guess per SecondGuess passed.
rewind(s) ==
    IF s.action_stack = << >> THEN [searcher |-> s, outcome |-> "continue"]
    ELSE LET action == Last(s.action_stack)
             s1 == [s EXCEPT !.action_stack = Pop(@)]
         IN  IF action.kind = "MakeGuess"
             THEN [searcher |-> s1, outcome |-> "todo"]
             ELSE IF action.kind = "FirstGuess"
             THEN [searcher |-> [s1 EXCEPT !.action_stack =
                                     Append(@, SecondGuess(action.x, action.y, action.alive))],
                   outcome |-> "continue"]
             ELSE rewind([s1 EXCEPT !.guess_stack = Pop(@)])

\* on_make_guess trying `alive` first on every cell.
on_make_guess_alive_first(s, guess) ==
    LET s1 == [s EXCEPT !.action_stack = Pop(@)]
        cand == candidates(s, guess)
    IN  IF cand # << >>
        THEN LET c == cand[1]
             IN  [searcher |-> [s1 EXCEPT !.action_stack = Append(@, FirstGuess(c[1], c[2], TRUE))],
                  outcome |-> "continue", pops |-> 0]
        ELSE IF step(guess.alive) # s.next
        THEN [searcher |-> s1, outcome |-> "grids did not match", pops |-> 0]
        ELSE LET r == rewind([s1 EXCEPT !.guess_stack = Pop(@)])
             IN  IF r.outcome = "continue"
                 THEN [searcher |-> r.searcher, outcome |-> "found", pops |-> 0,
                       grid |-> guess.alive]
                 ELSE [searcher |-> r.searcher, outcome |-> r.outcome, pops |-> 0]

\* searcher.rs:66-131
on_make_guess(s, guess) ==
    LET s1 == [s EXCEPT !.action_stack = Pop(@)]
        cand == candidates(s, guess)
    IN  IF cand # << >>
        THEN LET c == cand[1]
             IN  [searcher |-> [s1 EXCEPT !.action_stack =
                                    Append(@, FirstGuess(c[1], c[2], Contains(s.alive_cells, c)))],
                  outcome |-> "continue", pops |-> 0]
        ELSE IF step(guess.alive) # s.next
        THEN [searcher |-> s1, outcome |-> "grids did not match", pops |-> 0]
        ELSE LET r == rewind([s1 EXCEPT !.guess_stack = Pop(@)])
             IN  IF r.outcome = "continue"
                 THEN [searcher |-> r.searcher, outcome |-> "found", pops |-> 0,
                       grid |-> guess.alive]
                 ELSE [searcher |-> r.searcher, outcome |-> r.outcome, pops |-> 0]

\* after_first_guess pushing MakeGuess twice after a FirstGuess that held.
after_first_guess_two_makes(s, action, call) ==
    IF call.guess.found_contradiction
    THEN [searcher |-> [s EXCEPT !.action_stack =
                            Append(Pop(@), SecondGuess(action.x, action.y, action.alive))],
          outcome |-> "continue", pops |-> call.pops]
    ELSE [searcher |-> [s EXCEPT !.guess_stack = Append(@, call.guess),
                                 !.action_stack = Append(Append(@, MakeGuess), MakeGuess)],
          outcome |-> "continue", pops |-> call.pops]

\* searcher.rs:139-146: what FirstGuess does with new_guess, the guess `call`
\* ended with.
after_first_guess(s, action, call) ==
    IF call.guess.found_contradiction
    THEN [searcher |-> [s EXCEPT !.action_stack =
                            Append(Pop(@), SecondGuess(action.x, action.y, action.alive))],
          outcome |-> "continue", pops |-> call.pops]
    ELSE [searcher |-> [s EXCEPT !.guess_stack = Append(@, call.guess),
                                 !.action_stack = Append(@, MakeGuess)],
          outcome |-> "continue", pops |-> call.pops]

\* searcher.rs:132-147
on_first_guess(s, guess, action) ==
    after_first_guess(s, action,
                      IF action.alive
                      THEN guess_alive_call(guess, s.next, action.x, action.y)
                      ELSE guess_dead_call(guess, s.next, action.x, action.y))

\* on_second_guess that leaves the stacks alone when both polarities failed.
on_second_guess_no_rewind(s, guess, action) ==
    LET call == IF action.alive
                THEN guess_dead_call(guess, s.next, action.x, action.y)
                ELSE guess_alive_call(guess, s.next, action.x, action.y)
        new_guess == call.guess
    IN  IF new_guess.found_contradiction
        THEN [searcher |-> s, outcome |-> "continue", pops |-> call.pops]
        ELSE [searcher |-> [s EXCEPT !.guess_stack = Append(@, new_guess),
                                     !.action_stack = Append(@, MakeGuess)],
              outcome |-> "continue", pops |-> call.pops]

\* searcher.rs:155-177: what SecondGuess does with new_guess, the guess `call`
\* ended with.
after_second_guess(s, call) ==
    IF call.guess.found_contradiction
    THEN LET r == rewind(s)
         IN  [searcher |-> r.searcher, outcome |-> r.outcome, pops |-> call.pops]
    ELSE [searcher |-> [s EXCEPT !.guess_stack = Append(@, call.guess),
                                 !.action_stack = Append(@, MakeGuess)],
          outcome |-> "continue", pops |-> call.pops]

\* on_second_guess asserting the polarity the FirstGuess asserted.
on_second_guess_same_polarity(s, guess, action) ==
    after_second_guess(s,
                       IF action.alive
                       THEN guess_alive_call(guess, s.next, action.x, action.y)
                       ELSE guess_dead_call(guess, s.next, action.x, action.y))

\* searcher.rs:148-178
on_second_guess(s, guess, action) ==
    after_second_guess(s,
                       IF action.alive
                       THEN guess_dead_call(guess, s.next, action.x, action.y)
                       ELSE guess_alive_call(guess, s.next, action.x, action.y))

\* searcher.rs:60-179: one pass of the loop body, up to the budget test.
process_action(s) ==
    IF s.guess_stack = << >>
    THEN [searcher |-> s, outcome |-> "unwrap on None", pops |-> 0]
    ELSE LET action == Last(s.action_stack)
             guess == Last(s.guess_stack)
         IN  IF action.kind = "MakeGuess" THEN on_make_guess(s, guess)
             ELSE IF action.kind = "FirstGuess" THEN on_first_guess(s, guess, action)
             ELSE on_second_guess(s, guess, action)

RECURSIVE search_loop_unsat_on_budget(_, _, _)
\* search_loop returning Unsatisfiable where the source returns Working.
search_loop_unsat_on_budget(s, iterations, max_iterations) ==
    IF s.action_stack = << >>
    THEN [searcher |-> s, result |-> Unsatisfiable, processed |-> iterations, pops |-> 0]
    ELSE LET r == process_action(s)
             it == iterations + 1
         IN  IF r.outcome = "found"
             THEN [searcher |-> r.searcher, result |-> Found(r.grid, it),
                   processed |-> it, pops |-> r.pops]
             ELSE IF r.outcome # "continue"
             THEN [searcher |-> r.searcher, result |-> Panicked(r.outcome),
                   processed |-> it, pops |-> r.pops]
             ELSE IF it >= max_iterations
             THEN [searcher |-> r.searcher, result |-> Unsatisfiable,
                   processed |-> it, pops |-> r.pops]
             ELSE search_loop_unsat_on_budget(r.searcher, it, max_iterations)

RECURSIVE search_loop_pop_on_pause(_, _, _)
\* search_loop that has already popped the next action when it finds the
\* budget used up, so that the action is lost across the pause.
search_loop_pop_on_pause(s, iterations, max_iterations) ==
    IF s.action_stack = << >>
    THEN [searcher |-> s, result |-> Unsatisfiable, processed |-> iterations, pops |-> 0]
    ELSE LET r == process_action(s)
             it == iterations + 1
         IN  IF r.outcome = "found"
             THEN [searcher |-> r.searcher, result |-> Found(r.grid, it),
                   processed |-> it, pops |-> r.pops]
             ELSE IF r.outcome # "continue"
             THEN [searcher |-> r.searcher, result |-> Panicked(r.outcome),
                   processed |-> it, pops |-> r.pops]
             ELSE IF it >= max_iterations
             THEN [searcher |-> [r.searcher EXCEPT !.action_stack = Pop(@)],
                   result |-> Working(it), processed |-> it, pops |-> r.pops]
             ELSE search_loop_pop_on_pause(r.searcher, it, max_iterations)

RECURSIVE search_loop(_, _, _)

\* searcher.rs:128, 181-183: the rest of a pass of the loop, after the action
\* was processed with the outcome r and `iterations` was raised to it.
after_action(r, it, max_iterations) ==
    IF r.outcome = "found"
    THEN [searcher |-> r.searcher, result |-> Found(r.grid, it),
          processed |-> it, pops |-> r.pops]
    ELSE IF r.outcome # "continue"
    THEN [searcher |-> r.searcher, result |-> Panicked(r.outcome),
          processed |-> it, pops |-> r.pops]
    ELSE IF it >= max_iterations
    THEN [searcher |-> r.searcher, result |-> Working(it),
          processed |-> it, pops |-> r.pops]
    ELSE search_loop(r.searcher, it, max_iterations)

\* searcher.rs:58-187.  `processed` counts the actions the call has handled and
\* `pops` the cells dequeued by the propagation of the last one.
search_loop(s, iterations, max_iterations) ==
    IF s.action_stack = << >>
    THEN [searcher |-> s, result |-> Unsatisfiable, processed |-> iterations, pops |-> 0]
    ELSE after_action(process_action(s), iterations + 1, max_iterations)

search(s, max_iterations) == search_loop(s, 0, max_iterations)

---------------------------------------------------------------------------
(* State.  Two callers are modelled over the same variables: a caller of
   Searcher::search (Spec, PausedSpec, FairSpec) and a caller of
   Guess::guess_alive / Guess::guess_dead (GuessSpec). *)

GridOf(S) == [i \in Idx |-> IF << i % SIZE, i \div SIZE >> \in S THEN 1 ELSE 0]

SingleCell == { << 1, 1 >> }

Block == { << 1, 1 >>, << 2, 1 >>, << 1, 2 >>, << 2, 2 >> }

Diagonal == { << 0, 0 >>, << 1, 1 >>, << 2, 2 >> }

TargetShapes == { SingleCell, Block, Diagonal }

\* The target grids the searcher is constructed for.
Targets == { GridOf(S) : S \in TargetShapes }

\* The target grids guess_alive / guess_dead are called against.
GuessTargets == Targets \cup { DefaultGrid }

Budgets == 0 .. MaxBudget

\* The cells guess_alive / guess_dead are called on directly.
CallCells == (0 .. (CallWidth - 1)) \X (0 .. (CallHeight - 1))

VARIABLES
    searcher,   \* the Searcher
    result,     \* what the last search call returned
    budget,     \* the budget of the last search call
    processed,  \* how many actions the last search call processed
    found,      \* the grids returned in Found results so far, oldest first
    shadow,     \* a second Searcher for the same target, only ever called with budget 1
    target,     \* the `next` grid handed to guess_alive / guess_dead
    guess,      \* the Guess that guess_alive / guess_dead are called on
    call,       \* which of guess_alive / guess_dead was called last
    pops        \* cells dequeued by the last guess_alive / guess_dead propagation

vars == << searcher, result, budget, processed, found, shadow, target, guess, call, pops >>

NoResult == [kind |-> "None"]

NoShadow == [searcher |-> new(DefaultGrid), result |-> NoResult, found |-> << >>]

InitSearcher(nx) ==
    /\ searcher = new(nx)
    /\ result = NoResult
    /\ budget = 0
    /\ processed = 0
    /\ found = << >>

InitGuess(nx) ==
    /\ target = nx
    /\ guess = DefaultGuess
    /\ call = "none"
    /\ pops = 0

Init ==
    /\ \E nx \in Targets : InitSearcher(nx)
    /\ shadow = NoShadow
    /\ InitGuess(DefaultGrid)

\* One call searcher.search(b).
SearchCall(b) ==
    /\ result.kind # "Panic"
    /\ \E r \in { search(searcher, b) } :
           /\ searcher' = r.searcher
           /\ result' = r.result
           /\ processed' = r.processed
           /\ pops' = r.pops
           /\ found' = IF r.result.kind = "Found" THEN Append(found, r.result.grid) ELSE found
    /\ budget' = b
    /\ UNCHANGED << target, guess, call >>

Search(b) == SearchCall(b) /\ UNCHANGED shadow

Next == \E b \in Budgets : Search(b)

Spec == Init /\ [][Next]_vars

\* The caller keeps calling: every search call that can be made is made.
\* This is weak fairness of Next, WF_vars(Next), written out.  A call with a
\* budget other than the previous one changes `budget`, so a step of Next that
\* changes vars is possible exactly when the last call did not panic.
FairSpec ==
    Spec /\ ([]<>(result.kind = "Panic") \/ []<><< Next >>_vars)

---------------------------------------------------------------------------
(* The passes of the loop of Searcher::search one by one (PolaritySpec): each
   step is one pass, and `call` records the trial the pass made: the cell,
   the polarity asserted, the Guess it was asserted on and the length of the
   action stack.  `shadow` keeps the FirstGuess trials that no SecondGuess
   trial has answered yet, oldest first. *)

NoTrial == [kind |-> "none"]

\* searcher.rs:132-138, 148-154: the trial the pending action of s makes.
TrialOf(s) ==
    LET action == Last(s.action_stack)
    IN  IF action.kind = "MakeGuess" THEN [kind |-> "MakeGuess"]
        ELSE [kind |-> action.kind,
              cell |-> << action.x, action.y >>,
              asserted |-> IF action.kind = "FirstGuess" THEN action.alive ELSE ~action.alive,
              parent |-> Last(s.guess_stack),
              depth |-> Len(s.action_stack)]

\* The place in `firsts` of the latest FirstGuess trial on the cell of t made
\* at the same length of the action stack, or 0.
MatchOf(t, firsts) ==
    IF \E k \in 1 .. Len(firsts) : firsts[k].cell = t.cell /\ firsts[k].depth = t.depth
    THEN CHOOSE k \in 1 .. Len(firsts) :
            /\ firsts[k].cell = t.cell /\ firsts[k].depth = t.depth
            /\ \A j \in (k + 1) .. Len(firsts) :
                  ~(firsts[j].cell = t.cell /\ firsts[j].depth = t.depth)
    ELSE 0

\* `firsts` once the SecondGuess trial t has answered its FirstGuess trial.
Answered(t, firsts) ==
    IF MatchOf(t, firsts) = 0 THEN firsts
    ELSE SubSeq(firsts, 1, MatchOf(t, firsts) - 1)
           \o SubSeq(firsts, MatchOf(t, firsts) + 1, Len(firsts))

\* The trial t with what the pass r made of it: whether a new Guess was pushed
\* and what that Guess holds for the cell; for a SecondGuess, the FirstGuess
\* trial it answers.
Recorded(t, r, firsts) ==
    IF t.kind = "MakeGuess" THEN t
    ELSE LET pushed == Len(r.searcher.guess_stack) > Len(searcher.guess_stack)
         IN  [kind |-> t.kind, cell |-> t.cell, asserted |-> t.asserted,
              parent |-> t.parent, depth |-> t.depth,
              pushed |-> pushed,
              alive_after |-> pushed /\ guessed_alive(Last(r.searcher.guess_stack),
                                                      t.cell[1], t.cell[2]),
              dead_after |-> pushed /\ guessed_dead(Last(r.searcher.guess_stack),
                                                    t.cell[1], t.cell[2]),
              first |-> IF t.kind = "SecondGuess" /\ MatchOf(t, firsts) > 0
                        THEN firsts[MatchOf(t, firsts)] ELSE NoTrial]

PolarityInit ==
    /\ \E nx \in Targets : InitSearcher(nx)
    /\ shadow = << >>
    /\ target = DefaultGrid
    /\ guess = DefaultGuess
    /\ call = NoTrial
    /\ pops = 0

\* searcher.rs:60-183: one pass of the loop.
Pass ==
    /\ result.kind # "Panic"
    /\ searcher.action_stack # << >>
    /\ searcher.guess_stack # << >>
    /\ \E r \in { search(searcher, 1) } :
          /\ searcher' = r.searcher
          /\ result' = r.result
          /\ processed' = r.processed
          /\ pops' = r.pops
          /\ found' = IF r.result.kind = "Found" THEN Append(found, r.result.grid) ELSE found
          /\ \E t \in { TrialOf(searcher) } :
                /\ call' = Recorded(t, r, shadow)
                /\ shadow' = IF t.kind = "FirstGuess" THEN Append(shadow, t)
                             ELSE IF t.kind = "SecondGuess" THEN Answered(t, shadow)
                             ELSE shadow
    /\ budget' = 1
    /\ UNCHANGED << target, guess >>

PolarityNext == Pass

\* The loop runs on: a pass that can be made is made (weak fairness of
\* PolarityNext, WF_vars(PolarityNext), written out).
PolaritySpec ==
    /\ PolarityInit
    /\ [][PolarityNext]_vars
    /\ \/ []<>(result.kind = "Panic" \/ searcher.action_stack = << >>
                 \/ searcher.guess_stack = << >>)
       \/ []<><< PolarityNext >>_vars

---------------------------------------------------------------------------
(* Pause and resume: beside the searcher called with arbitrary budgets, the
   shadow is called with budget 1 once per action the searcher processed
   (and once more when the searcher reported Unsatisfiable). *)

\* The shadow after one call returned r.
replayed(sh, r) ==
    [searcher |-> r.searcher,
     result |-> r.result,
     found |-> IF r.result.kind = "Found" THEN Append(sh.found, r.result.grid) ELSE sh.found]

RECURSIVE replay(_, _)
replay(sh, k) ==
    IF k = 0 THEN sh
    ELSE replay(replayed(sh, search(sh.searcher, 1)), k - 1)

PausedInit ==
    /\ \E nx \in Targets : InitSearcher(nx) /\ shadow = [NoShadow EXCEPT !.searcher = new(nx)]
    /\ InitGuess(DefaultGrid)

PausedSearch(b) ==
    /\ SearchCall(b)
    /\ shadow' = replay([shadow EXCEPT !.result = NoResult, !.found = << >>],
                        IF result'.kind = "Unsatisfiable" THEN processed' + 1 ELSE processed')

PausedNext == \E b \in Budgets \ {0} : PausedSearch(b)

PausedSpec == PausedInit /\ [][PausedNext]_vars

---------------------------------------------------------------------------
(* The all-dead target: a fresh Searcher for Grid::default() is called until
   it has returned MaxFound grids.  The caller keeps calling while it may,
   which is weak fairness of EmptyNext written out: a call with a budget other
   than the previous one changes `budget`, so a step that changes vars is
   possible exactly when fewer than MaxFound grids were returned and the last
   call did not panic. *)

\* How many Found results the caller of the all-dead target waits for.
MaxFound == 4

EmptyInit ==
    /\ InitSearcher(DefaultGrid)
    /\ shadow = NoShadow
    /\ InitGuess(DefaultGrid)

EmptySearch(b) ==
    /\ Len(found) < MaxFound
    /\ Search(b)

EmptyNext == \E b \in Budgets : EmptySearch(b)

EmptySpec ==
    /\ EmptyInit
    /\ [][EmptyNext]_vars
    /\ \/ []<>(result.kind = "Panic" \/ Len(found) >= MaxFound)
       \/ []<><< EmptyNext >>_vars

---------------------------------------------------------------------------
(* Guess calls: from Guess::default(), any sequence of guess_alive and
   guess_dead calls on the cells of CallCells against one target. *)

GuessInit ==
    /\ InitSearcher(DefaultGrid)
    /\ shadow = NoShadow
    /\ \E nx \in GuessTargets : InitGuess(nx)

GuessAlive(x, y) ==
    /\ LET c == guess_alive_call(guess, target, x, y)
       IN  guess' = c.guess /\ pops' = c.pops
    /\ call' = "guess_alive"
    /\ UNCHANGED << searcher, result, budget, processed, found, shadow, target >>

GuessDead(x, y) ==
    /\ LET c == guess_dead_call(guess, target, x, y)
       IN  guess' = c.guess /\ pops' = c.pops
    /\ call' = "guess_dead"
    /\ UNCHANGED << searcher, result, budget, processed, found, shadow, target >>

GuessNext ==
    \E c \in CallCells :
        \/ GuessAlive(c[1], c[2])
        \/ GuessDead(c[1], c[2])

GuessSpec == GuessInit /\ [][GuessNext]_vars

---------------------------------------------------------------------------
(* The passes of the loop of Guess::propagate_constraints one by one
   (QueueSpec): `guess` is the Guess a call of guess_alive / guess_dead is
   working on, `call` holds the call's queue and whether its Result is still
   Ok, and `pops` counts the cells the call has dequeued. *)

Idle == [kind |-> "none", queue |-> << >>, ok |-> TRUE]

\* A call is inside `while let Some((x, y)) = queue.pop()`.
Running == call.ok /\ call.queue # << >>

\* The call's running state, and the variables after it became st; the queue
\* of a call that returned Err is dropped.
RunningState == [guess |-> guess, queue |-> call.queue, ok |-> call.ok, pops |-> pops]

Becomes(st, kind) ==
    /\ guess' = st.guess
    /\ call' = [kind |-> kind, queue |-> IF st.ok THEN st.queue ELSE << >>, ok |-> st.ok]
    /\ pops' = st.pops
    /\ UNCHANGED << searcher, result, budget, processed, found, shadow, target >>

QueueInit ==
    /\ InitSearcher(DefaultGrid)
    /\ shadow = NoShadow
    /\ \E nx \in GuessTargets : target = nx
    /\ guess = DefaultGuess
    /\ call = Idle
    /\ pops = 0

\* guess.rs:89-91: guess_alive up to the call of propagate_constraints.
BeginAlive(x, y) ==
    /\ ~Running
    /\ Becomes(guess_alive_with_queue(StartCall(guess), x, y), "guess_alive")

\* guess.rs:98-100: guess_dead up to the call of propagate_constraints.
BeginDead(x, y) ==
    /\ ~Running
    /\ Becomes(guess_dead_with_queue(StartCall(guess), x, y), "guess_dead")

\* guess.rs:216-358: one pass of the loop.
Dequeue ==
    /\ Running
    /\ Becomes(propagate_one(RunningState, target), call.kind)

QueueNext ==
    \/ \E c \in CallCells : BeginAlive(c[1], c[2]) \/ BeginDead(c[1], c[2])
    \/ Dequeue

QueueSpec == QueueInit /\ [][QueueNext]_vars

---------------------------------------------------------------------------
(* Guess calls up to a full decision (ClosureSpec): guess_alive / guess_dead
   are called on the cells of the call window in any order, and then on the
   first undecided cell of the grid, again and again, with either polarity.
   No call is made on a Guess that holds a contradiction.  `processed` is 1
   once the calls on the first undecided cell have begun. *)

\* The first undecided cell of g in the order of Grid::alive_cells, as a
\* one-element set; empty when every cell is decided.
FirstUndecided(g) ==
    { XMajorCells[k] : k \in { j \in 1 .. NCells :
                                 /\ Undecided(g, XMajorCells[j])
                                 /\ \A h \in 1 .. (j - 1) : ~Undecided(g, XMajorCells[h]) } }

ClosureInit ==
    /\ InitSearcher(DefaultGrid)
    /\ shadow = NoShadow
    /\ \E nx \in GuessTargets : InitGuess(nx)

\* The variables after a call that ended in the running state c.
Called(c, name, filling) ==
    /\ guess' = c.guess
    /\ pops' = c.pops
    /\ call' = name
    /\ processed' = filling
    /\ UNCHANGED << searcher, result, budget, found, shadow, target >>

WindowAlive(x, y) ==
    /\ ~guess.found_contradiction
    /\ processed = 0
    /\ Called(guess_alive_call(guess, target, x, y), "guess_alive", 0)

WindowDead(x, y) ==
    /\ ~guess.found_contradiction
    /\ processed = 0
    /\ Called(guess_dead_call(guess, target, x, y), "guess_dead", 0)

FillAlive ==
    /\ ~guess.found_contradiction
    /\ \E c \in FirstUndecided(guess) :
          Called(guess_alive_call(guess, target, c[1], c[2]), "guess_alive", 1)

FillDead ==
    /\ ~guess.found_contradiction
    /\ \E c \in FirstUndecided(guess) :
          Called(guess_dead_call(guess, target, c[1], c[2]), "guess_dead", 1)

ClosureNext ==
    \/ \E c \in CallCells : WindowAlive(c[1], c[2]) \/ WindowDead(c[1], c[2])
    \/ FillAlive
    \/ FillDead

ClosureSpec == ClosureInit /\ [][ClosureNext]_vars

---------------------------------------------------------------------------
(* Grid calls: Grid::neighbours and Grid::step applied to any 0/1 state grid.
   `target` is the grid the calls are made on; `result` holds what the last
   call returned (neighbours) or the grid it started from (step). *)

StateGrids == [Idx -> {0, 1}]

GridInit ==
    /\ InitSearcher(DefaultGrid)
    /\ shadow = NoShadow
    /\ \E g \in StateGrids : InitGuess(g)

NeighboursCall ==
    /\ result' = [kind |-> "neighbours", grid |-> neighbours(target)]
    /\ call' = "neighbours"
    /\ UNCHANGED << searcher, budget, processed, found, shadow, target, guess, pops >>

StepCall ==
    /\ target' = step(target)
    /\ result' = [kind |-> "step", grid |-> target]
    /\ call' = "step"
    /\ UNCHANGED << searcher, budget, processed, found, shadow, guess, pops >>

GridNext == NeighboursCall \/ StepCall

GridSpec == GridInit /\ [][GridNext]_vars

---------------------------------------------------------------------------
(* Wrapped access: Grid::get_wrapped and Grid::set_wrapped called with
   coordinates below, inside and above 0 .. SIZE-1, on the grid that holds
   its own index in every cell.  get and set index the cell array with
   get_unchecked: an index outside the array is undefined behaviour, which
   is modelled as any cell value read, or no cell of the grid written, or
   a fault. *)

\* How far below 0 and above SIZE-1 the coordinates of the calls go.
Overshoot == 2

\* How many set_wrapped calls are made on the grid.
MaxSets == 1

WrapCoords == (0 - SIZE - Overshoot) .. (SIZE - 1 + Overshoot)

\* Cell::neg_one(), the value written by set_wrapped.
neg_one == -1

IndexGrid == [i \in Idx |-> i]

\* What a read outside the cell array may return: a value of the grid, the
\* value written, or a value that is nowhere in the grid.
StrayReads == { 0, neg_one, NCells }

\* grid.rs:127 / 133 with 116 / 121: the array index the wrapped call uses.
wrapped_index(x, y) == Rem(x + SIZE, SIZE) + Rem(y + SIZE, SIZE) * SIZE

Fault(x, y) == [kind |-> "Fault", x |-> x, y |-> y]

WrapInit ==
    /\ InitSearcher(DefaultGrid)
    /\ shadow = NoShadow
    /\ InitGuess(IndexGrid)

GetWrapped(x, y) ==
    /\ result.kind # "Fault"
    /\ \/ /\ wrapped_index(x, y) \in Idx
          /\ result' = [kind |-> "get_wrapped", x |-> x, y |-> y,
                         cell |-> target[wrapped_index(x, y)]]
       \/ /\ wrapped_index(x, y) \notin Idx
          /\ \/ \E v \in StrayReads :
                    result' = [kind |-> "get_wrapped", x |-> x, y |-> y, cell |-> v]
             \/ result' = Fault(x, y)
    /\ call' = "get_wrapped"
    /\ UNCHANGED << searcher, budget, processed, found, shadow, target, guess, pops >>

SetWrapped(x, y) ==
    /\ result.kind # "Fault"
    /\ processed < MaxSets
    /\ processed' = processed + 1
    /\ \/ /\ wrapped_index(x, y) \in Idx
          /\ target' = [target EXCEPT ![wrapped_index(x, y)] = neg_one]
          /\ result' = [kind |-> "set_wrapped", x |-> x, y |-> y, before |-> target]
       \/ /\ wrapped_index(x, y) \notin Idx
          /\ target' = target
          /\ \/ result' = [kind |-> "set_wrapped", x |-> x, y |-> y, before |-> target]
             \/ result' = Fault(x, y)
    /\ call' = "set_wrapped"
    /\ UNCHANGED << searcher, budget, found, shadow, guess, pops >>

WrapNext ==
    \E x, y \in WrapCoords :
        \/ GetWrapped(x, y)
        \/ SetWrapped(x, y)

WrapSpec == WrapInit /\ [][WrapNext]_vars

---------------------------------------------------------------------------
(* The contradiction scenario: for a target and one of its live cells c,
   starting from Guess::default(), guess_dead is called on the eight
   neighbours of c in any order, and then guess_alive on c.  Here `call`
   records the last call made, the cell c and the neighbours called so far. *)

NeighbourSet(c) ==
    { neighbour_positions(c[1], c[2])[k] : k \in 1 .. 8 }

ScenarioInit ==
    /\ InitSearcher(DefaultGrid)
    /\ shadow = NoShadow
    /\ guess = DefaultGuess
    /\ pops = 0
    /\ \E nx \in Targets :
           /\ target = nx
           /\ \E k \in 1 .. Len(alive_cells(nx)) :
                  call = [kind |-> "none", centre |-> alive_cells(nx)[k], cells |-> {}]

ForceDead(p) ==
    /\ call.kind \in {"none", "guess_dead"}
    /\ p \in NeighbourSet(call.centre) \ call.cells
    /\ \E c \in { guess_dead_call(guess, target, p[1], p[2]) } :
           guess' = c.guess /\ pops' = c.pops
    /\ call' = [call EXCEPT !.kind = "guess_dead", !.cells = @ \cup {p}]
    /\ UNCHANGED << searcher, result, budget, processed, found, shadow, target >>

GuessCentre ==
    /\ call.kind = "guess_dead"
    /\ call.cells = NeighbourSet(call.centre)
    /\ \E c \in { guess_alive_call(guess, target, call.centre[1], call.centre[2]) } :
           guess' = c.guess /\ pops' = c.pops
    /\ call' = [call EXCEPT !.kind = "guess_alive"]
    /\ UNCHANGED << searcher, result, budget, processed, found, shadow, target >>

ScenarioNext ==
    \/ \E x, y \in Coord : ForceDead(<< x, y >>)
    \/ GuessCentre

ScenarioSpec == ScenarioInit /\ [][ScenarioNext]_vars

---------------------------------------------------------------------------
(* Truthful calls: a grid P is fixed, the target is step(P), and from
   Guess::default() the caller tells the Guess cells of P: guess_alive where P
   is alive, guess_dead where P is dead.  `result` holds P, as a Found result
   would. *)

\* Side of the window, anchored at (0, 0), that the live cells of P lie in.
PatternSide == 3

PatternGrids ==
    { g \in [Idx -> {0, 1}] :
        \A i \in Idx : g[i] = 1 => (i % SIZE < PatternSide /\ i \div SIZE < PatternSide) }

TruthInit ==
    /\ searcher = new(DefaultGrid)
    /\ budget = 0
    /\ processed = 0
    /\ found = << >>
    /\ shadow = NoShadow
    /\ \E P \in PatternGrids : result = Found(P, 0) /\ InitGuess(step(P))

TellAlive(x, y) ==
    /\ get(result.grid, x, y) = 1
    /\ \E c \in { guess_alive_call(guess, target, x, y) } :
           guess' = c.guess /\ pops' = c.pops
    /\ call' = "guess_alive"
    /\ UNCHANGED << searcher, result, budget, processed, found, shadow, target >>

TellDead(x, y) ==
    /\ get(result.grid, x, y) = 0
    /\ \E c \in { guess_dead_call(guess, target, x, y) } :
           guess' = c.guess /\ pops' = c.pops
    /\ call' = "guess_dead"
    /\ UNCHANGED << searcher, result, budget, processed, found, shadow, target >>

TruthNext ==
    \E c \in CallCells :
        \/ TellAlive(c[1], c[2])
        \/ TellDead(c[1], c[2])

TruthSpec == TruthInit /\ [][TruthNext]_vars

---------------------------------------------------------------------------
(* Properties of Guess, checked under GuessSpec. *)

\* The number of the eight entries of neighbour_positions(c) at which grid is 1.
CountAround(grid, i) ==
    LET np == neighbour_positions(i % SIZE, i \div SIZE)
    IN  Cardinality({ k \in 1 .. Len(np) : get(grid, np[k][1], np[k][2]) = 1 })

\* C8 (Invariant A): after any sequence of guess_alive / guess_dead calls from
\* Guess::default(), every entry of alive and dead is 0 or 1 and no cell has
\* both alive = 1 and dead = 1.
C8_InvariantA ==
    \A i \in Idx :
        /\ guess.alive[i] \in {0, 1}
        /\ guess.dead[i] \in {0, 1}
        /\ guess.alive[i] + guess.dead[i] <= 1

\* A call was refused on a cell decided the other way, with cells of both
\* kinds decided.
C8_Witness ==
    /\ call # "none"
    /\ guess.found_contradiction
    /\ \E i, j \in Idx : guess.alive[i] = 1 /\ guess.dead[j] = 1

\* C9 (Invariant B): after every guess_alive / guess_dead that did not set
\* contradiction, min_neighbours[c] is the number of the eight toroidal
\* neighbours of c that are known alive.
C9_InvariantB ==
    ~guess.found_contradiction =>
        \A i \in Idx : guess.min_neighbours[i] = CountAround(guess.alive, i)

\* Propagation has decided some cells alive and some cell has three known-alive
\* neighbours.
C9_Witness ==
    /\ call # "none"
    /\ ~guess.found_contradiction
    /\ \E i \in Idx : guess.min_neighbours[i] = 3
    /\ \E i \in Idx : guess.min_neighbours[i] = 0

\* C10 (Invariant C): after every guess_alive / guess_dead that did not set
\* contradiction, max_neighbours[c] is 8 minus the number of the eight toroidal
\* neighbours of c that are known dead.
C10_InvariantC ==
    ~guess.found_contradiction =>
        \A i \in Idx : guess.max_neighbours[i] = 8 - CountAround(guess.dead, i)

\* Some cell has five neighbours known dead, another has none.
C10_Witness ==
    /\ call # "none"
    /\ ~guess.found_contradiction
    /\ \E i \in Idx : guess.max_neighbours[i] = 3
    /\ \E i \in Idx : guess.max_neighbours[i] = 8

\* C11: after every guess_alive / guess_dead that did not set contradiction,
\* min_neighbours[c] <= max_neighbours[c] for every cell c, and both values
\* are in 0..8.
C11_MinBelowMax ==
    ~guess.found_contradiction =>
        \A i \in Idx :
            /\ guess.min_neighbours[i] \in 0 .. 8
            /\ guess.max_neighbours[i] \in 0 .. 8
            /\ guess.min_neighbours[i] <= guess.max_neighbours[i]

\* Without contradiction, some cell has all eight neighbours decided, some of
\* them alive, and another cell has bounds still apart.
C11_Witness ==
    /\ call # "none"
    /\ ~guess.found_contradiction
    /\ \E i \in Idx : guess.min_neighbours[i] = guess.max_neighbours[i] /\ guess.min_neighbours[i] >= 1
    /\ \E i \in Idx : guess.min_neighbours[i] < guess.max_neighbours[i]

\* C12 (idempotence): for every reachable Guess and every cell, a second
\* guess_alive on the cell straight after the first leaves every field of the
\* Guess as the first call left it; the same for guess_dead.
C12_Idempotent ==
    \A i \in Idx :
        LET x == i % SIZE
            y == i \div SIZE
        IN  /\ \E g1 \in { guess_alive(guess, target, x, y) } :
                   guess_alive(g1, target, x, y) = g1
            /\ \E g1 \in { guess_dead(guess, target, x, y) } :
                   guess_dead(g1, target, x, y) = g1

\* From a reachable Guess without contradiction, a first guess_alive on some
\* cell decides further cells by propagation, and the second one changes
\* nothing.
C12_Witness ==
    /\ call # "none"
    /\ ~guess.found_contradiction
    /\ \E c \in CallCells :
           \E g1 \in { guess_alive(guess, target, c[1], c[2]) } :
               /\ ~g1.found_contradiction
               /\ \E i, j \in Idx : /\ i # j
                                    /\ g1.alive[i] + g1.dead[i] > guess.alive[i] + guess.dead[i]
                                    /\ g1.alive[j] + g1.dead[j] > guess.alive[j] + guess.dead[j]
               /\ guess_alive(g1, target, c[1], c[2]) = g1

\* C13 (conflicting assignment): guess_alive on a cell with dead = 1, and
\* guess_dead on a cell with alive = 1, sets found_contradiction, dequeues
\* nothing and leaves every other field of the Guess unchanged.
C13_ConflictOnly ==
    \A i \in Idx :
        LET x == i % SIZE
            y == i \div SIZE
        IN  /\ guess.dead[i] = 1 =>
                   \E c \in { guess_alive_call(guess, target, x, y) } :
                       /\ c.guess = [guess EXCEPT !.found_contradiction = TRUE]
                       /\ c.pops = 0
            /\ guess.alive[i] = 1 =>
                   \E c \in { guess_dead_call(guess, target, x, y) } :
                       /\ c.guess = [guess EXCEPT !.found_contradiction = TRUE]
                       /\ c.pops = 0

\* A Guess without contradiction in which cells of both kinds are decided, so
\* that both conflicting calls can be made and would set the flag.
C13_Witness ==
    /\ call # "none"
    /\ ~guess.found_contradiction
    /\ \E i, j \in Idx : guess.dead[i] = 1 /\ guess.alive[j] = 1
    /\ \E i \in Idx : guess.try_alive[i] + guess.try_dead[i] > 0

\* C18 (contradiction scenario), under ScenarioSpec: with next[c] alive, from
\* Guess::default(), after guess_dead on all eight neighbours of c in any
\* order and then guess_alive on c, found_contradiction is true.
C18_Scenario ==
    call.kind = "guess_alive" => guess.found_contradiction

\* The scenario was run to its end on the single-cell target: all eight
\* neighbours of the live cell were called and the flag is set.
C18_Witness ==
    /\ call.kind = "guess_alive"
    /\ call.cells = NeighbourSet(call.centre)
    /\ target = GridOf(SingleCell)
    /\ guess.found_contradiction

\* A Guess with its advisory marks cleared, and the fields other than the marks.
ClearMarks(g) == [g EXCEPT !.try_alive = DefaultGrid, !.try_dead = DefaultGrid]

\* C19 (propagation soundness), under TruthSpec: a Guess that has only been
\* told cells of a grid P with step(P) == next is never contradicted and every
\* cell it has decided, told or propagated, agrees with P; and what a further
\* guess_alive / guess_dead decides does not depend on the try_alive /
\* try_dead marks.
C19_PropagationSound ==
    /\ ~guess.found_contradiction
    /\ \A i \in Idx :
          /\ guess.alive[i] = 1 => result.grid[i] = 1
          /\ guess.dead[i] = 1 => result.grid[i] = 0
    /\ \A c \in CallCells :
          /\ ClearMarks(guess_alive(ClearMarks(guess), target, c[1], c[2]))
                = ClearMarks(guess_alive(guess, target, c[1], c[2]))
          /\ ClearMarks(guess_dead(ClearMarks(guess), target, c[1], c[2]))
                = ClearMarks(guess_dead(guess, target, c[1], c[2]))

\* Propagation has decided a cell outside the window of the calls, of each
\* kind, and has set an advisory mark.
C19_Witness ==
    /\ call # "none"
    /\ \E i, j \in Idx :
          /\ << i % SIZE, i \div SIZE >> \notin CallCells
          /\ << j % SIZE, j \div SIZE >> \notin CallCells
          /\ guess.alive[i] = 1
          /\ guess.dead[j] = 1
    /\ \E i \in Idx : guess.try_alive[i] + guess.try_dead[i] > 0

---------------------------------------------------------------------------
(* Properties of Grid, checked under GridSpec. *)

Offsets == ((-1 .. 1) \X (-1 .. 1)) \ { << 0, 0 >> }

\* The number of the eight offsets d for which the cell at (x, y) + d, taken
\* modulo SIZE in each coordinate, is 1.
LiveAround(grid, x, y) ==
    Cardinality({ d \in Offsets :
                    grid[((x + d[1]) % SIZE) + ((y + d[2]) % SIZE) * SIZE] = 1 })

\* C14: Grid::neighbours on a 0/1 grid returns, at every cell (x, y), the
\* number of live cells among its eight toroidally wrapped neighbours, the
\* cell itself excluded; every entry is in 0..8.
C14_NeighbourCount ==
    call = "neighbours" =>
        \A i \in Idx :
            /\ result.grid[i] = LiveAround(target, i % SIZE, i \div SIZE)
            /\ result.grid[i] \in 0 .. 8

\* The only live cell is the last cell of the last row; the first cell of the
\* first row, diagonally across both edges, counts it.
C14_Witness ==
    /\ call = "neighbours"
    /\ \A i \in Idx : target[i] = (IF i = NCells - 1 THEN 1 ELSE 0)
    /\ result.grid[0] = 1
    /\ result.grid[NCells - 1] = 0

\* The Life rule applied to a cell and its neighbour count.
LifeRule(cell, count) ==
    IF count = 3 THEN 1 ELSE IF count = 2 /\ cell = 1 THEN 1 ELSE 0

\* C15: Grid::step replaces a 0/1 grid by its Life successor computed from
\* the pre-step grid: 1 at a count of 3, 1 at a count of 2 on a live cell, 0
\* otherwise; the result is a 0/1 grid.
C15_StepRule ==
    call = "step" =>
        \A i \in Idx :
            /\ target[i] = LifeRule(result.grid[i], LiveAround(result.grid, i % SIZE, i \div SIZE))
            /\ target[i] \in {0, 1}

\* One step in which a cell is born, a cell survives on two neighbours, a
\* cell dies and a dead cell with two neighbours stays dead.
C15_Witness ==
    /\ call = "step"
    /\ \E i \in Idx : result.grid[i] = 0 /\ target[i] = 1
    /\ \E i \in Idx : /\ result.grid[i] = 1 /\ target[i] = 1
                       /\ LiveAround(result.grid, i % SIZE, i \div SIZE) = 2
    /\ \E i \in Idx : result.grid[i] = 1 /\ target[i] = 0
    /\ \E i \in Idx : /\ result.grid[i] = 0 /\ target[i] = 0
                       /\ LiveAround(result.grid, i % SIZE, i \div SIZE) = 2

\* The index of the cell (x mod SIZE, y mod SIZE), with mod in 0 .. SIZE-1.
ModIndex(x, y) == (x % SIZE) + (y % SIZE) * SIZE

\* C16 as stated, under WrapSpec: for every integer x and y, those at or below
\* -SIZE included, get_wrapped(x, y) returns the cell at (x mod SIZE,
\* y mod SIZE) and set_wrapped(x, y, v) writes that cell and no other.
C16_Original ==
    /\ result.kind # "Fault"
    /\ result.kind = "get_wrapped" => result.cell = target[ModIndex(result.x, result.y)]
    /\ result.kind = "set_wrapped" =>
          target = [result.before EXCEPT ![ModIndex(result.x, result.y)] = neg_one]

---------------------------------------------------------------------------
(* Properties of Searcher::search, checked under Spec unless said otherwise. *)

AllGrids == [Idx -> {0, 1}]

\* step(P) == G, compared cell by cell.
IsPredecessor(P, G) == \A i \in Idx : step(P)[i] = G[i]

WasFound(P) == \E k \in 1 .. Len(found) : found[k] = P

LiveCount(grid) == Cardinality({ i \in Idx : grid[i] > 0 })

\* C1 (soundness): every grid returned in Found is a complete 0/1 grid whose
\* Life successor is the target, and the 'grids did not match' panic is never
\* reached.
C1_Soundness ==
    /\ result.kind = "Panic" => result.why # "grids did not match"
    /\ result.kind = "Found" =>
          /\ \A i \in Idx : result.grid[i] \in {0, 1}
          /\ step(result.grid) = searcher.next

\* A Found result with live cells, for the 2x2 block target.
C1_Witness ==
    /\ result.kind = "Found"
    /\ searcher.next = GridOf(Block)
    /\ LiveCount(result.grid) > 0

\* C2 (exhaustiveness): when search returns Unsatisfiable, every grid P with
\* step(P) == next has been returned by an earlier Found; for the 2x2 block
\* target the block itself is among them.
C2_Exhaustive ==
    result.kind = "Unsatisfiable" =>
        /\ \A P \in AllGrids : IsPredecessor(P, searcher.next) => WasFound(P)
        /\ searcher.next = GridOf(Block) => WasFound(GridOf(Block))

\* The block target's search has ended and has returned the block.
C2_Witness ==
    /\ result.kind = "Unsatisfiable"
    /\ searcher.next = GridOf(Block)
    /\ WasFound(GridOf(Block))
    /\ Len(found) > 1

\* The cell diagonal through the live cells of a grid: each live cell with its
\* upper-left and lower-right neighbours.
DiagonalThrough(grid) ==
    [i \in Idx |->
        LET x == i % SIZE
            y == i \div SIZE
        IN  IF \/ get(grid, x, y) > 0
               \/ get_wrapped(grid, x - 1, y - 1) > 0
               \/ get_wrapped(grid, x + 1, y + 1) > 0
            THEN 1 ELSE 0]

\* C3 as stated: for a target with exactly one live cell the Searcher never
\* returns Found.
C3_Original == LiveCount(searcher.next) = 1 => result.kind # "Found"

\* C3 as amended: for a target with exactly one live cell the Searcher does
\* return Found; every grid it returns has at least three live cells and steps
\* to the target, and by the time it returns Unsatisfiable it has returned the
\* three-cell diagonal centred on the live cell.
C3_SingleCellPredecessors ==
    LiveCount(searcher.next) = 1 =>
        /\ result.kind = "Found" =>
              LiveCount(result.grid) >= 3 /\ step(result.grid) = searcher.next
        /\ result.kind = "Unsatisfiable" => WasFound(DiagonalThrough(searcher.next))

\* A three-cell predecessor of the single-cell target has been returned.
C3_Witness ==
    /\ LiveCount(searcher.next) = 1
    /\ result.kind = "Found"
    /\ LiveCount(result.grid) = 3
    /\ step(result.grid) = searcher.next

C5_Original ==
    result.kind # "None" =>
        /\ processed <= budget
        /\ result.kind \in {"Found", "Working"} => result.iterations <= budget

\* C6 (pause / resume), under PausedSpec: after every call with a positive
\* budget the searcher is in the state of the shadow that was called with
\* budget 1 throughout, the shadow returned a grid exactly when the call did
\* (the same grid), and Unsatisfiable exactly when the call did.
C6_PauseResume ==
    result.kind # "None" =>
        /\ shadow.searcher = searcher
        /\ shadow.found = (IF result.kind = "Found" THEN << result.grid >> ELSE << >>)
        /\ shadow.result.kind = "Unsatisfiable" <=> result.kind = "Unsatisfiable"

\* A call with the largest budget returned the second or a later Found at its
\* last action.
C6_Witness ==
    /\ result.kind = "Found"
    /\ budget = MaxBudget
    /\ processed = MaxBudget
    /\ Len(found) >= 2
    /\ shadow.found = << result.grid >>

\* C7 (termination), under FairSpec: repeated search calls eventually return
\* Unsatisfiable, and no propagation dequeues more than eight cells per cell of
\* the grid.
C7_Termination ==
    /\ <>(result.kind = "Unsatisfiable")
    /\ [](pops <= 8 * NCells)

\* Unsatisfiable was returned after Found results.
C7_Witness ==
    /\ result.kind = "Unsatisfiable"
    /\ found # << >>

\* C17 (empty target), under EmptySpec: the first grid a fresh Searcher for
\* the all-dead target returns is the all-dead grid, it does not return
\* Unsatisfiable before it has returned a second grid, and it does return a
\* second grid, which is a further predecessor.
C17_EmptyTarget ==
    /\ [](Len(found) >= 1 => found[1] = DefaultGrid)
    /\ [](result.kind = "Unsatisfiable" => Len(found) >= 2)
    /\ <>(/\ Len(found) >= 2
          /\ found[2] # DefaultGrid
          /\ step(found[2]) = DefaultGrid)

\* The second grid was returned by the call straight after the one that
\* returned the all-dead grid as the first.
C17_Witness ==
    /\ Len(found) = 2
    /\ found[1] = DefaultGrid
    /\ result.kind = "Found"
    /\ LiveCount(result.grid) >= 1
    /\ searcher.action_stack # << >>

\* The toroidal L1 distance from c to the nearest cell of `alive`: per
\* coordinate the smaller of |a - c| and SIZE - |a - c|.
ToroidalKey(alive, c) ==
    MinOf({ MinOf({ Abs(alive[k][1] - c[1]), SIZE - Abs(alive[k][1] - c[1]) })
              + MinOf({ Abs(alive[k][2] - c[2]), SIZE - Abs(alive[k][2] - c[2]) })
            : k \in 1 .. Len(alive) })

\* C20 as stated: Searcher::new ranks the cells by the minimum toroidal L1
\* distance to the alive-next cells, so that along all_cells that distance
\* never decreases, or never increases.
C20_Original ==
    searcher.alive_cells # << >> =>
        LET key(k) == ToroidalKey(searcher.alive_cells, searcher.all_cells[k])
        IN  \/ \A i, j \in 1 .. NCells : i < j => key(i) <= key(j)
            \/ \A i, j \in 1 .. NCells : i < j => key(i) >= key(j)

\* C21 as stated: along all_cells the distance key of Searcher::new never
\* increases (the cells furthest from the alive-next cells come first), and
\* the first cell the initial MakeGuess branches on has the largest key.
C21_Original ==
    LET key(k) == sort_key(searcher.alive_cells, searcher.all_cells[k])
    IN  /\ \A i, j \in 1 .. NCells : i < j => key(i) >= key(j)
        /\ \A s \in { on_make_guess(new(searcher.next), DefaultGuess).searcher } :
              \A k \in 1 .. NCells :
                 sort_key(searcher.alive_cells,
                          << Last(s.action_stack).x, Last(s.action_stack).y >>) >= key(k)

\* The cells of the torus, and those a Guess has not decided.
Cells == Coord \X Coord

UndecidedCells(g) == { c \in Cells : Undecided(g, c) }

\* The undecided cells carrying a mark of the advisory grid `marks`.
MarkedUndecided(g, marks) == { c \in UndecidedCells(g) : get(marks, c[1], c[2]) > 0 }

\* The cell the top action of s is about.
TopCell(s) == << Last(s.action_stack).x, Last(s.action_stack).y >>

\* A MakeGuess is about to be processed.
AtMakeGuess ==
    /\ result.kind # "Panic"
    /\ searcher.action_stack # << >>
    /\ searcher.guess_stack # << >>
    /\ Last(searcher.action_stack).kind = "MakeGuess"

\* What processing the pending MakeGuess does, given its outcome r and the
\* current Guess g.
BranchesAsStated(r, g) ==
    IF UndecidedCells(g) = {}
    THEN r.outcome # "continue"
    ELSE /\ r.outcome = "continue"
         /\ Last(r.searcher.action_stack).kind = "FirstGuess"
         /\ TopCell(r.searcher) \in UndecidedCells(g)
         /\ IF MarkedUndecided(g, g.try_dead) # {}
            THEN TopCell(r.searcher) \in MarkedUndecided(g, g.try_dead)
            ELSE IF MarkedUndecided(g, g.try_alive) # {}
            THEN TopCell(r.searcher) \in MarkedUndecided(g, g.try_alive)
            ELSE \E k \in 1 .. NCells :
                    /\ searcher.all_cells[k] = TopCell(r.searcher)
                    /\ \A j \in 1 .. (k - 1) : searcher.all_cells[j] \notin UndecidedCells(g)

\* C22: a pending MakeGuess branches on an undecided cell marked try_dead if
\* there is one, otherwise on an undecided cell marked try_alive if there is
\* one, otherwise on the first undecided cell of all_cells; it never takes a
\* decided cell, and it emits a solution only when no cell is undecided.
C22_BranchSelection ==
    AtMakeGuess => BranchesAsStated(process_action(searcher), Last(searcher.guess_stack))

\* A MakeGuess is pending with no undecided try_dead cell and an undecided
\* try_alive cell, which is not the first undecided cell of all_cells.
C22_Witness ==
    /\ AtMakeGuess
    /\ MarkedUndecided(Last(searcher.guess_stack), Last(searcher.guess_stack).try_dead) = {}
    /\ MarkedUndecided(Last(searcher.guess_stack), Last(searcher.guess_stack).try_alive) # {}
    /\ \E k \in 1 .. NCells :
          /\ Undecided(Last(searcher.guess_stack), searcher.all_cells[k])
          /\ searcher.all_cells[k] \notin
                MarkedUndecided(Last(searcher.guess_stack), Last(searcher.guess_stack).try_alive)
          /\ \A j \in 1 .. (k - 1) : ~Undecided(Last(searcher.guess_stack), searcher.all_cells[j])

\* The trial recorded in `call` is as stated: a FirstGuess asserts alive
\* exactly when the cell is alive in next, a SecondGuess asserts the opposite
\* on the same cell and on the same Guess its FirstGuess was tried on, and a
\* trial that pushed a Guess left the cell decided the way it asserted.
TrialAsStated ==
    call.kind \in { "FirstGuess", "SecondGuess" } =>
        /\ call.pushed => (call.alive_after = call.asserted /\ call.dead_after = ~call.asserted)
        /\ call.kind = "FirstGuess" =>
              call.asserted = (get(searcher.next, call.cell[1], call.cell[2]) > 0)
        /\ call.kind = "SecondGuess" =>
              /\ call.first.kind = "FirstGuess"
              /\ call.first.cell = call.cell
              /\ call.first.depth = call.depth
              /\ call.first.asserted = ~call.asserted
              /\ call.first.parent = call.parent

\* C23: the FirstGuess of a branched cell asserts alive iff the cell is alive
\* in next, its SecondGuess asserts the opposite polarity on the same parent
\* Guess, and every FirstGuess trial is answered in the end by the
\* SecondGuess trial of the same cell at the same place of the action stack.
C23_Polarity ==
    /\ []TrialAsStated
    /\ (call.kind = "FirstGuess") ~> (shadow = << >>)

\* A SecondGuess was tried and pushed a Guess, its FirstGuess having pushed
\* one too, below the root of the search.
C23_Witness ==
    /\ call.kind = "SecondGuess"
    /\ call.pushed
    /\ call.depth > 1
    /\ Len(searcher.guess_stack) > call.depth

\* C24 as stated: in every reachable Searcher state the guess stack is not
\* empty and its bottom element is the initial empty Guess, so that
\* current_guess() (searcher.rs:54-56) has a Guess to return.
C24_Original ==
    /\ searcher.guess_stack # << >>
    /\ searcher.guess_stack[1] = DefaultGuess

\* The cell the next pass of propagate_constraints dequeues, with
\* min_neighbours = mn and max_neighbours = mx there and the value nx in next.
Dequeues(mn, mx, nx) ==
    /\ Running
    /\ get(guess.min_neighbours, Last(call.queue)[1], Last(call.queue)[2]) = mn
    /\ get(guess.max_neighbours, Last(call.queue)[1], Last(call.queue)[2]) = mx
    /\ get(target, Last(call.queue)[1], Last(call.queue)[2]) = nx

\* The undecided cells among the eight neighbours of c.
UndecidedAround(g, c) ==
    { p \in Cells : /\ \E k \in 1 .. 8 : neighbour_positions(c[1], c[2])[k] = p
                    /\ Undecided(g, p) }

\* C25: when propagate_constraints dequeues a cell with min_neighbours = 3,
\* max_neighbours = 4 and next = 0, exactly one of its eight neighbours is
\* undecided.
C25_OneUndecided ==
    Dequeues(3, 4, 0) => Cardinality(UndecidedAround(guess, Last(call.queue))) = 1

\* Such a cell is about to be dequeued, by a call that has not failed.
C25_Witness == Dequeues(3, 4, 0) /\ ~guess.found_contradiction

\* The number of FirstGuess / SecondGuess entries of an action stack.
TrialEntries(actions) ==
    Cardinality({ k \in 1 .. Len(actions) : actions[k].kind \in { "FirstGuess", "SecondGuess" } })

\* The two stacks agree in length as stated, while an action is pending.
StacksInStep ==
    searcher.action_stack # << >> =>
        IF Last(searcher.action_stack).kind = "MakeGuess"
        THEN Len(searcher.guess_stack) = TrialEntries(searcher.action_stack) + 1
        ELSE Len(searcher.guess_stack) = Len(searcher.action_stack)

\* The pending action is a FirstGuess whose assertion contradicts the Guess
\* on top of the guess stack.
FirstGuessFails ==
    /\ searcher.action_stack # << >>
    /\ searcher.guess_stack # << >>
    /\ Last(searcher.action_stack).kind = "FirstGuess"
    /\ (IF Last(searcher.action_stack).alive
        THEN guess_alive(Last(searcher.guess_stack), searcher.next,
                         Last(searcher.action_stack).x, Last(searcher.action_stack).y)
        ELSE guess_dead(Last(searcher.guess_stack), searcher.next,
                        Last(searcher.action_stack).x, Last(searcher.action_stack).y)
       ).found_contradiction

\* C26: between passes of the search loop the guess stack has one element
\* more than the action stack has FirstGuess / SecondGuess entries when the
\* pending action is MakeGuess, and as many elements as the action stack when
\* it is a FirstGuess or SecondGuess; a pass on a failing FirstGuess leaves
\* the guess stack alone and replaces the FirstGuess by the SecondGuess of
\* the same cell.
C26_StackSync ==
    /\ []StacksInStep
    /\ [][FirstGuessFails =>
            /\ searcher'.guess_stack = searcher.guess_stack
            /\ searcher'.action_stack =
                  Append(Pop(searcher.action_stack),
                         SecondGuess(Last(searcher.action_stack).x,
                                     Last(searcher.action_stack).y,
                                     Last(searcher.action_stack).alive))]_vars

\* A FirstGuess has just failed below the root of the search: its
\* SecondGuess is pending under the unchanged guess stack.
C26_Witness ==
    /\ call.kind = "FirstGuess"
    /\ ~call.pushed
    /\ Len(searcher.action_stack) > 2
    /\ Last(searcher.action_stack).kind = "SecondGuess"
    /\ Last(searcher.guess_stack) = call.parent

\* C27: MakeGuess occurs on the action stack only as its top element, and no
\* search call ends in the todo!() or unimplemented!() of the rewinding loops.
C27_MakeGuessOnTop ==
    /\ \A k \in 1 .. (Len(searcher.action_stack) - 1) :
          searcher.action_stack[k].kind # "MakeGuess"
    /\ result.kind = "Panic" => result.why # "todo"

\* The rewinding loop after a solution has run, for the second time at
\* least, and stopped at a FirstGuess, which is now a pending SecondGuess
\* above other entries of the action stack.
C27_Witness ==
    /\ result.kind = "Found"
    /\ searcher.action_stack # << >>
    /\ Last(searcher.action_stack).kind = "SecondGuess"
    /\ Len(found) >= 2
    /\ Len(searcher.action_stack) >= 2

\* C28: the grids returned in Found results by one Searcher are pairwise
\* distinct.
C28_NoDuplicate ==
    \A i, j \in 1 .. Len(found) : i < j => found[i] # found[j]

\* Several solutions have been returned, the last one just now.
C28_Witness == result.kind = "Found" /\ Len(found) >= 3

\* All eight neighbours of cell i are decided in the Guess g.
DecidedAround(g, i) ==
    \A k \in 1 .. 8 : ~Undecided(g, neighbour_positions(i % SIZE, i \div SIZE)[k])

FullyDecided(g) == \A c \in Cells : ~Undecided(g, c)

\* C29: after guess_alive / guess_dead calls that left contradiction unset,
\* every cell whose eight neighbours are all decided obeys Life's rule
\* against next: with three of them alive the cell is alive in next, with two
\* the cell is decided and alive exactly when it is alive in next, with any
\* other number it is dead in next; and a fully decided Guess has
\* step(alive) = next.
C29_Closure ==
    ~guess.found_contradiction =>
        /\ \A i \in Idx :
              DecidedAround(guess, i) =>
                 /\ CountAround(guess.alive, i) = 3 => target[i] = 1
                 /\ CountAround(guess.alive, i) = 2 =>
                       /\ guess.alive[i] + guess.dead[i] = 1
                       /\ guess.alive[i] = target[i]
                 /\ CountAround(guess.alive, i) \notin { 2, 3 } => target[i] = 0
        /\ FullyDecided(guess) => step(guess.alive) = target

\* Calls have decided every cell without contradiction; one cell has two of
\* its neighbours alive, and another three.
C29_Witness ==
    /\ call # "none"
    /\ ~guess.found_contradiction
    /\ FullyDecided(guess)
    /\ \E i \in Idx : DecidedAround(guess, i) /\ CountAround(guess.alive, i) = 2
    /\ \E i \in Idx : DecidedAround(guess, i) /\ CountAround(guess.alive, i) = 3

====
